---- MODULE Spec2Model ----
(***************************************************************************)
(* State-machine model of the whole-slide-image pyramid resolver of        *)
(* mhubio: WsiDicomImporter (scan / analyze / match / import) and the      *)
(* identical resolver functions of WsiMagnificationExtractor.              *)
(*                                                                         *)
(* Magnifications are Python floats in the source.  They are modelled as   *)
(* exact rationals <<numerator, denominator>> in lowest terms with a       *)
(* positive denominator, so that equality of two magnifications is         *)
(* equality of the pairs.  File names are sequences of characters, so      *)
(* that endswith() and glob() are computed on the name itself.             *)
(***************************************************************************)
EXTENDS Integers, Sequences, FiniteSets, TLC

(***************************************************************************)
(* Bounds of the model.                                                    *)
(***************************************************************************)
\* longest list of analyzed levels handed to the matcher (SpecMatch)
MaxLevels == 3
\* most records in one scan handed to the analyzer (SpecAnalyze)
MaxFiles == 2
\* largest total_columns of a record handed to the analyzer (SpecAnalyze)
MaxCols == 2
\* most entries in the first level of the source directory (Spec)
MaxEntries == 2
\* most files in one instance sub-directory (Spec)
MaxDirFiles == 2
MaxDatasets == 2

(***************************************************************************)
(* Exact rational arithmetic standing for Python float arithmetic.         *)
(***************************************************************************)
Abs(n) == IF n < 0 THEN -n ELSE n

RECURSIVE GCD(_, _)
GCD(a, b) == IF b = 0 THEN a ELSE GCD(b, a % b)

\* the rational n/d (d # 0) in lowest terms, denominator positive
Rat(n, d) ==
  LET g == GCD(Abs(n), Abs(d))
      s == IF d < 0 THEN -1 ELSE 1
  IN  <<(s * n) \div g, (s * d) \div g>>

RatMul(p, q) == Rat(p[1] * q[1], p[2] * q[2])
RatSub(p, q) == Rat(p[1] * q[2] - q[1] * p[2], p[2] * q[2])
RatAbs(p) == <<Abs(p[1]), p[2]>>
RatLess(p, q) == p[1] * q[2] < q[1] * p[2]

\* A Python number that may be an int or a float carries its type
PyInt(n) == [int |-> n]
PyFloat(q) == [float |-> q]

\* Python float(x): an int becomes the float of the same value, a float is
\* returned as it is
Float(x) == IF "int" \in DOMAIN x THEN Rat(x.int, 1) ELSE x.float

\* Python true division a / b of two ints: the quotient as a float, or
\* ZeroDivisionError when b = 0
DivRaises(a, b) == b = 0
TrueDiv(a, b) == Rat(a, b)

(***************************************************************************)
(* Python values used by the resolver.                                     *)
(***************************************************************************)
\* the value None
None == [none |-> TRUE]

\* the header of a file that pydicom cannot decode, or that lacks one of
\* the fields extract_image_info_dicom reads
BadHeader == [bad |-> TRUE]

(***************************************************************************)
(* extract_image_info_dicom: (success, size, mag, cols, rows, icols,       *)
(* irows) of a file header; every field is None when anything raised.      *)
(***************************************************************************)
extract_image_info_dicom(hdr) ==
  IF hdr = BadHeader
  THEN [success |-> FALSE, size |-> None, mag |-> None, cols |-> None,
        rows |-> None, icols |-> None, irows |-> None]
  ELSE [success |-> TRUE,
        size |-> hdr.TotalPixelMatrixRows * hdr.TotalPixelMatrixColumns,
        mag |-> Float(hdr.ObjectiveLensPower),
        cols |-> hdr.TotalPixelMatrixColumns,
        rows |-> hdr.TotalPixelMatrixRows,
        icols |-> hdr.Columns,
        irows |-> hdr.Rows]

\* the record pydicom_extract_information builds from a successful extraction
ImageRec(filename, x) ==
  [filename |-> filename, size |-> x.size, mag |-> x.mag, cols |-> x.cols,
   rows |-> x.rows, icols |-> x.icols, irows |-> x.irows]

(***************************************************************************)
(* imageList.sort(key=size, reverse=True): a stable sort, records of equal *)
(* size keep the order they had in the list.                               *)
(***************************************************************************)
RECURSIVE InsertBySize(_, _)
InsertBySize(sorted, x) ==
  IF sorted = <<>> THEN <<x>>
  ELSE IF Head(sorted).size >= x.size
       THEN <<Head(sorted)>> \o InsertBySize(Tail(sorted), x)
       ELSE <<x>> \o sorted

\* the list left in the order the scan produced
Unsorted(list) == list

RECURSIVE SortBySizeDesc(_)
SortBySizeDesc(list) ==
  IF list = <<>> THEN <<>>
  ELSE InsertBySize(SortBySizeDesc(SubSeq(list, 1, Len(list) - 1)),
                    list[Len(list)])

(***************************************************************************)
(* analyze_image_list.  The base of every magnification is element 0 of    *)
(* the sorted list; the division by its cols happens only when a record    *)
(* with a square tile is met.                                              *)
(***************************************************************************)
\* a tile at least as wide as high passes
IsWideTile(r) == r.icols >= r.irows

IsSquareTile(r) == r.icols = r.irows

\* the first record with a square tile: element 0 of the filtered list
BaseOfFiltered(sorted) ==
  sorted[CHOOSE i \in 1..Len(sorted) :
           /\ sorted[i].icols = sorted[i].irows
           /\ \A j \in 1..(i - 1) : sorted[j].icols # sorted[j].irows]

BaseRecord(sorted) == sorted[1]

LevelRec(r, base) ==
  [filename |-> r.filename, size |-> r.size,
   mag |-> RatMul(base.mag, TrueDiv(r.cols, base.cols)),
   cols |-> r.cols, rows |-> r.rows, icols |-> r.icols, irows |-> r.irows]

RECURSIVE TiledOf(_, _, _)
TiledOf(sorted, i, acc) ==
  IF i > Len(sorted) THEN acc
  ELSE IF IsSquareTile(sorted[i])
       THEN TiledOf(sorted, i + 1,
                    Append(acc, LevelRec(sorted[i], BaseRecord(sorted))))
       ELSE TiledOf(sorted, i + 1, acc)

\* the division evaluated for every record, before the tile is looked at
AnalyzeRaisesAnyTile(sorted) ==
  \E i \in 1..Len(sorted) : DivRaises(sorted[i].cols, sorted[1].cols)

\* the division is reached, and raises ZeroDivisionError, when some record
\* has a square tile and element 0 of the sorted list has cols = 0
AnalyzeRaises(sorted) ==
  \E i \in 1..Len(sorted) :
     /\ IsSquareTile(sorted[i])
     /\ DivRaises(sorted[i].cols, BaseRecord(sorted).cols)

\* the outcome of one call: the list as sorted in place, whether the call
\* raised ZeroDivisionError, and the returned list when it did not
analyze_image_list(imageList) ==
  LET sorted == SortBySizeDesc(imageList)
      raises == AnalyzeRaises(sorted)
  IN  [imageList |-> sorted,
       raised |-> raises,
       tiledImages |-> IF raises THEN <<>> ELSE TiledOf(sorted, 1, <<>>)]

(***************************************************************************)
(* return_magnitude_match: the first level, in list order, whose           *)
(* magnification is nearer than magTolerance to targetMag; None otherwise. *)
(***************************************************************************)
\* the comparison with <= in place of <
NearTargetInclusive(level, targetMag, magTolerance) ==
  ~RatLess(magTolerance, RatAbs(RatSub(level.mag, Float(targetMag))))

NearTarget(level, targetMag, magTolerance) ==
  \* level.mag is a float already: float() returns it unchanged
  RatLess(RatAbs(RatSub(level.mag, Float(targetMag))), magTolerance)

RECURSIVE MatchFrom(_, _, _, _)
MatchFrom(imageList, i, targetMag, magTolerance) ==
  IF i > Len(imageList) THEN None
  ELSE IF NearTarget(imageList[i], targetMag, magTolerance)
       THEN imageList[i]
       ELSE MatchFrom(imageList, i + 1, targetMag, magTolerance)

return_magnitude_match(imageList, targetMag, magTolerance) ==
  MatchFrom(imageList, 1, targetMag, magTolerance)

(***************************************************************************)
(* WsiMagnificationExtractor: its own extract_image_info_dicom,            *)
(* pydicom_extract_information, analyze_image_list and                     *)
(* return_magnitude_match, translated from the processor module.           *)
(***************************************************************************)
ex_extract_image_info_dicom(hdr) ==
  IF hdr = BadHeader
  THEN [success |-> FALSE, size |-> None, mag |-> None, cols |-> None,
        rows |-> None, icols |-> None, irows |-> None]
  ELSE [success |-> TRUE,
        size |-> hdr.TotalPixelMatrixRows * hdr.TotalPixelMatrixColumns,
        mag |-> Float(hdr.ObjectiveLensPower),
        cols |-> hdr.TotalPixelMatrixColumns,
        rows |-> hdr.TotalPixelMatrixRows,
        icols |-> hdr.Columns,
        irows |-> hdr.Rows]

ExImageRec(filename, x) ==
  [filename |-> filename, size |-> x.size, mag |-> x.mag, cols |-> x.cols,
   rows |-> x.rows, icols |-> x.icols, irows |-> x.irows]

\* glob('*dcm') in the extractor
ExGlobDcm(name) ==
  /\ Len(name) >= 3
  /\ SubSeq(name, Len(name) - 2, Len(name)) = <<"d", "c", "m">>
  /\ name[1] # "."

RECURSIVE ExScanFrom(_, _, _)
ExScanFrom(files, k, imageList) ==
  IF k > Len(files) THEN imageList
  ELSE IF ~ExGlobDcm(files[k].name) THEN ExScanFrom(files, k + 1, imageList)
  ELSE LET x == ex_extract_image_info_dicom(files[k].hdr)
       IN  IF x.success
           THEN ExScanFrom(files, k + 1,
                           Append(imageList, ExImageRec(files[k].name, x)))
           ELSE ExScanFrom(files, k + 1, imageList)

ex_pydicom_extract_information(files) == ExScanFrom(files, 1, <<>>)

RECURSIVE ExInsertBySize(_, _)
ExInsertBySize(sorted, x) ==
  IF sorted = <<>> THEN <<x>>
  ELSE IF Head(sorted).size >= x.size
       THEN <<Head(sorted)>> \o ExInsertBySize(Tail(sorted), x)
       ELSE <<x>> \o sorted

RECURSIVE ExSortBySizeDesc(_)
ExSortBySizeDesc(list) ==
  IF list = <<>> THEN <<>>
  ELSE ExInsertBySize(ExSortBySizeDesc(SubSeq(list, 1, Len(list) - 1)),
                      list[Len(list)])

ExIsSquareTile(r) == r.icols = r.irows

ExBaseRecord(sorted) == sorted[1]

ExLevelRec(r, base) ==
  [filename |-> r.filename, size |-> r.size,
   mag |-> RatMul(base.mag, TrueDiv(r.cols, base.cols)),
   cols |-> r.cols, rows |-> r.rows, icols |-> r.icols, irows |-> r.irows]

RECURSIVE ExTiledOf(_, _, _)
ExTiledOf(sorted, i, acc) ==
  IF i > Len(sorted) THEN acc
  ELSE IF ExIsSquareTile(sorted[i])
       THEN ExTiledOf(sorted, i + 1,
                      Append(acc, ExLevelRec(sorted[i], ExBaseRecord(sorted))))
       ELSE ExTiledOf(sorted, i + 1, acc)

ExAnalyzeRaises(sorted) ==
  \E i \in 1..Len(sorted) :
     /\ ExIsSquareTile(sorted[i])
     /\ DivRaises(sorted[i].cols, ExBaseRecord(sorted).cols)

ex_analyze_image_list(imageList) ==
  LET sorted == ExSortBySizeDesc(imageList)
      raises == ExAnalyzeRaises(sorted)
  IN  [imageList |-> sorted,
       raised |-> raises,
       tiledImages |-> IF raises THEN <<>> ELSE ExTiledOf(sorted, 1, <<>>)]

\* the extractor's comparison with <= in place of <
ExNearTargetInclusive(level, targetMag, magTolerance) ==
  ~RatLess(magTolerance, RatAbs(RatSub(level.mag, Float(targetMag))))

ExNearTarget(level, targetMag, magTolerance) ==
  RatLess(RatAbs(RatSub(level.mag, Float(targetMag))), magTolerance)

RECURSIVE ExMatchFrom(_, _, _, _)
ExMatchFrom(imageList, i, targetMag, magTolerance) ==
  IF i > Len(imageList) THEN None
  ELSE IF ExNearTarget(imageList[i], targetMag, magTolerance)
       THEN imageList[i]
       ELSE ExMatchFrom(imageList, i + 1, targetMag, magTolerance)

ex_return_magnitude_match(imageList, targetMag, magTolerance) ==
  ExMatchFrom(imageList, 1, targetMag, magTolerance)

\* 'if matchingImage:' in process_data: None is false, a record (a dict with
\* entries) is true
Truthy(x) == x # None /\ DOMAIN x # {}

\* 'if matchingImage is None:' in the importer
IsNone(x) == x = None

(***************************************************************************)
(* State.                                                                  *)
(***************************************************************************)
VARIABLES
  pc,             \* position of the running call
  error,          \* the exception that ended the run, "none" while none did
  targetMag,      \* magnification / target_magnification
  magTolerance,   \* magTolerance / magnification_tolerance
  imageInfo,      \* imageInfo: the list pydicom_extract_information returned
  tiledImages,    \* tiledImages: the list analyze_image_list returned
  matchingImage,  \* matchingImage: what return_magnitude_match returned
  perm,           \* the order in which the second scan met the records
  permInfo,       \* a second scan result: the same records in another order
  permTiled,      \* analyze_image_list of permInfo
  permError,      \* the exception analyze_image_list(permInfo) raised
  topListing,     \* os.listdir of the source directory
  structure,      \* source_dir_structure
  idx,            \* number of sub-directories importMultipleInstances began
  instances,      \* instances added to the data handler, as their paths
  dirFiles,       \* listing and headers of the directory being scanned
  cwd,            \* the process working directory
  matched,        \* per instance matched, the file name returned or None
  noMatchLogged,  \* instances for which the no-match diagnostic was logged
  outDirs,        \* directories created under the import directory
  outFS,          \* files copied: destination path and source path of each
  metaCfg,        \* the configured meta dictionary (self.meta)
  datas,          \* the InstanceData objects created, in creation order
  metaReads,      \* the files updateMeta read, with the header it found
  inDatas,        \* in_datas: the directories of the extractor's datasets
  outDatas,       \* out_datas: the output data the extractor added
  exCopies        \* the copies the extractor made, in the order made

resolverVars == <<pc, error, targetMag, magTolerance, imageInfo, tiledImages,
                  matchingImage, perm, permInfo, permTiled, permError>>
importerVars == <<topListing, structure, idx, instances, dirFiles, cwd,
                  matched, noMatchLogged, outDirs, outFS, metaCfg, datas>>
extractorVars == <<inDatas, outDatas, exCopies>>
vars == <<resolverVars, importerVars, metaReads, extractorVars>>

\* the importer has not been constructed
ImporterIdle ==
  /\ topListing = <<>>
  /\ structure = "NOTSCANNED"
  /\ idx = 0
  /\ instances = <<>>
  /\ dirFiles = <<>>
  /\ cwd = <<>>
  /\ matched = <<>>
  /\ noMatchLogged = {}
  /\ outDirs = {}
  /\ outFS = {}
  /\ metaCfg = <<>>
  /\ datas = <<>>
  /\ metaReads = <<>>

\* the extractor has not been called
ExtractorIdle ==
  /\ inDatas = <<>>
  /\ outDatas = <<>>
  /\ exCopies = <<>>

(***************************************************************************)
(* File names.                                                             *)
(***************************************************************************)
DcmName(stem) == <<stem, ".", "d", "c", "m">>
NameOfIndex(i) == DcmName(<<"a", "b", "c", "d", "e", "f">>[i])

(***************************************************************************)
(* SpecMatch: return_magnitude_match applied to any list of levels.        *)
(***************************************************************************)
MagSamples == {Rat(8, 1), Rat(19, 2), Rat(10, 1), Rat(12, 1)}
\* the importer's target is an int, the extractor's a float
TargetSamples == {PyInt(10), PyFloat(Rat(21, 2))}
ToleranceSamples == {Rat(1, 2), Rat(1, 1), Rat(2, 1)}

LevelSample(i, mag) ==
  [filename |-> NameOfIndex(i), size |-> MaxLevels + 1 - i, mag |-> mag,
   cols |-> MaxLevels + 1 - i, rows |-> 1, icols |-> 1, irows |-> 1]

LevelLists ==
  UNION {{[i \in 1..n |-> LevelSample(i, f[i])] : f \in [1..n -> MagSamples]}
         : n \in 0..MaxLevels}

InitMatch ==
  /\ pc = "match"
  /\ error = "none"
  /\ targetMag \in TargetSamples
  /\ magTolerance \in ToleranceSamples
  /\ imageInfo = <<>>
  /\ tiledImages \in LevelLists
  /\ matchingImage = None
  /\ perm = <<>>
  /\ permInfo = <<>>
  /\ permTiled = <<>>
  /\ permError = "none"
  /\ ImporterIdle
  /\ ExtractorIdle

Match ==
  /\ pc = "match"
  /\ matchingImage' = return_magnitude_match(tiledImages, targetMag, magTolerance)
  /\ pc' = "matched"
  /\ UNCHANGED <<metaReads, extractorVars>>
  /\ UNCHANGED <<error, targetMag, magTolerance, imageInfo, tiledImages,
                 perm, permInfo, permTiled, permError, importerVars>>

NextMatch == Match

SpecMatch == InitMatch /\ [][NextMatch]_vars

(***************************************************************************)
(* Statements about return_magnitude_match.                                *)
(***************************************************************************)
\* the value of a target as a pair numerator, denominator
TargetPair(t) == IF "int" \in DOMAIN t THEN <<t.int, 1>> ELSE t.float

\* |m - t| compared with tol, for m = m1/m2, t = t1/t2, tol = a/b, over the
\* common denominator m2 * t2 * b
DistTimes(m, t) == Abs(m[1] * t[2] - t[1] * m[2])
StrictlyWithin(m, t, tol) == DistTimes(m, t) * tol[2] < tol[1] * m[2] * t[2]
ExactlyAtTolerance(m, t, tol) == DistTimes(m, t) * tol[2] = tol[1] * m[2] * t[2]

Qualifying ==
  {i \in 1..Len(tiledImages) :
     StrictlyWithin(tiledImages[i].mag, TargetPair(targetMag), magTolerance)}

\* C1: return_magnitude_match returns the first level, in list order, whose
\* distance |effective magnification - target| is strictly less than the
\* tolerance (a level exactly at the tolerance is not matched), and returns
\* None, raising nothing, when no level qualifies or the list is empty.
C1_FirstStrictlyWithinTolerance ==
  pc = "matched" =>
    /\ error = "none"
    /\ Qualifying = {} => matchingImage = None
    /\ Qualifying # {} =>
         \E i \in Qualifying :
            /\ \A j \in Qualifying : i <= j
            /\ matchingImage = tiledImages[i]

\* a level exactly at the tolerance was passed over and a later level matched
C1_Witness ==
  /\ pc = "matched"
  /\ \E i, j \in 1..Len(tiledImages) :
        /\ i < j
        /\ ExactlyAtTolerance(tiledImages[i].mag, TargetPair(targetMag), magTolerance)
        /\ \A k \in 1..(j - 1) : k \notin Qualifying
        /\ matchingImage = tiledImages[j]

(***************************************************************************)
(* SpecAnalyze: analyze_image_list applied to any scan result, and to the  *)
(* same records met in another order.                                      *)
(***************************************************************************)
LensPowerSamples == {PyInt(10), PyInt(20)}
RowsSamples == {1, 2}
\* (Columns, Rows) of the stored tile: a square one and one that is not
TileSamples == {<<1, 1>>, <<2, 1>>}

Header(power, cols, rows, tile) ==
  [ObjectiveLensPower |-> power, TotalPixelMatrixColumns |-> cols,
   TotalPixelMatrixRows |-> rows, Columns |-> tile[1], Rows |-> tile[2]]

HeaderSet ==
  {Header(p, c, r, t) : p \in LensPowerSamples, c \in 0..MaxCols,
                        r \in RowsSamples, t \in TileSamples}

\* the scan results of n files named a.dcm, b.dcm, ... all decoded
ScanResults(n) ==
  {[i \in 1..n |-> ImageRec(NameOfIndex(i), extract_image_info_dicom(h[i]))]
     : h \in [1..n -> HeaderSet]}

InitAnalyze ==
  /\ pc = "analyze"
  /\ error = "none"
  /\ targetMag = PyInt(10)
  /\ magTolerance = Rat(2, 1)
  /\ \E n \in 0..MaxFiles :
        /\ imageInfo \in ScanResults(n)
        /\ perm \in {[i \in 1..n |-> f[i]] : f \in Permutations(1..n)}
  /\ permInfo = [i \in 1..Len(perm) |-> imageInfo[perm[i]]]
  /\ tiledImages = <<>>
  /\ matchingImage = None
  /\ permTiled = <<>>
  /\ permError = "none"
  /\ ImporterIdle
  /\ ExtractorIdle

Analyze ==
  /\ pc = "analyze"
  /\ LET a == analyze_image_list(imageInfo)
         b == analyze_image_list(permInfo)
     IN  /\ imageInfo' = a.imageList
         /\ tiledImages' = a.tiledImages
         /\ error' = IF a.raised THEN "ZeroDivisionError" ELSE "none"
         /\ pc' = IF a.raised THEN "raised" ELSE "analyzed"
         /\ permInfo' = b.imageList
         /\ permTiled' = b.tiledImages
         /\ permError' = IF b.raised THEN "ZeroDivisionError" ELSE "none"
  /\ UNCHANGED <<metaReads, extractorVars>>
  /\ UNCHANGED <<targetMag, magTolerance, matchingImage, perm, importerVars>>

NextAnalyze == Analyze

SpecAnalyze == InitAnalyze /\ [][NextAnalyze]_vars

(***************************************************************************)
(* Statements about analyze_image_list.                                    *)
(***************************************************************************)
Scanned == {imageInfo[i] : i \in 1..Len(imageInfo)}
SquareScanned == {r \in Scanned : r.icols = r.irows}
Levels == {tiledImages[k] : k \in 1..Len(tiledImages)}

\* m = power * (cols / baseCols) for floats m = m1/m2 and power = p1/p2
IsScaledPower(m, power, cols, baseCols) ==
  /\ baseCols # 0
  /\ m[1] * power[2] * baseCols = power[1] * cols * m[2]

\* C2: for a non-empty output the reference record is element 0 of the full
\* sorted list, a record of maximum total_pixels among all scanned records;
\* every level has effective magnification base.mag * (cols / base.cols),
\* and a square-tiled base has its own objective lens power as magnification.
C2_BaseIsLargestScanned ==
  (pc = "analyzed" /\ tiledImages # <<>>) =>
    LET base == imageInfo[1] IN
      /\ \A r \in Scanned : r.size <= base.size
      /\ \A l \in Levels : IsScaledPower(l.mag, base.mag, l.cols, base.cols)
      /\ base.icols = base.irows =>
           \E l \in Levels : l.filename = base.filename /\ l.mag = base.mag

\* the largest record has no square tile, and a smaller level has another
\* number of columns, so another magnification
C2_Witness ==
  /\ pc = "analyzed"
  /\ tiledImages # <<>>
  /\ imageInfo[1].icols # imageInfo[1].irows
  /\ \E l \in Levels : l.cols # imageInfo[1].cols /\ l.mag # imageInfo[1].mag

\* C3: the output holds exactly the scanned records with a square tile, each
\* once and with its own fields, in non-increasing total_pixels order; when
\* no scanned record is square-tiled the output is empty and nothing is raised.
C3_ExactlySquareTiledInSizeOrder ==
  /\ pc = "analyzed" =>
       /\ {l.filename : l \in Levels} = {r.filename : r \in SquareScanned}
       /\ Len(tiledImages) = Cardinality(SquareScanned)
       /\ \A l \in Levels : \E r \in SquareScanned :
             /\ r.filename = l.filename /\ r.size = l.size /\ r.cols = l.cols
             /\ r.rows = l.rows /\ r.icols = l.icols /\ r.irows = l.irows
       /\ \A j, k \in 1..Len(tiledImages) :
             j < k => tiledImages[j].size >= tiledImages[k].size
  /\ (pc \in {"analyzed", "raised"} /\ SquareScanned = {}) =>
       pc = "analyzed" /\ error = "none" /\ tiledImages = <<>>

\* a record without a square tile was dropped although the magnification
\* it implies lies within the tolerance of the target
C3_Witness ==
  /\ pc = "analyzed"
  /\ tiledImages # <<>>
  /\ \E r \in Scanned :
        /\ r.icols # r.irows
        /\ imageInfo[1].cols # 0
        /\ StrictlyWithin(<<imageInfo[1].mag[1] * r.cols,
                            imageInfo[1].mag[2] * imageInfo[1].cols>>,
                          TargetPair(targetMag), magTolerance)
        /\ \A l \in Levels : l.filename # r.filename

SameOutcome ==
  /\ error = permError
  /\ error = "none" => tiledImages = permTiled

\* C4 as stated: the same records met in any order give the same levels,
\* also when several records share one total_pixels value.
C4_AnyOrderSameLevels ==
  pc \in {"analyzed", "raised"} => SameOutcome

DistinctSizes ==
  \A i, j \in 1..Len(imageInfo) : i # j => imageInfo[i].size # imageInfo[j].size

\* C4 amended: when no two records share one total_pixels value, the same
\* records met in any order give the same levels and the same sorted list.
C4_DistinctSizesSameLevels ==
  (pc \in {"analyzed", "raised"} /\ DistinctSizes) =>
    SameOutcome /\ imageInfo = permInfo

\* two records of different sizes were met in both orders and analyzed
C4_Witness ==
  /\ pc = "analyzed"
  /\ Len(imageInfo) >= 2
  /\ DistinctSizes
  /\ \E i \in 1..Len(perm) : perm[i] # i
  /\ Len(tiledImages) >= 2

\* C8 as stated: whenever element 0 of the sorted list has total_columns 0
\* the call fails with a division error, square tiles or not.
C8_ZeroColumnsBaseAlwaysRaises ==
  (pc \in {"analyzed", "raised"} /\ imageInfo # <<>> /\ imageInfo[1].cols = 0)
    => error = "ZeroDivisionError"

\* C8 amended: with total_columns 0 in element 0 of the sorted list, the call
\* fails with a division error exactly when some scanned record has a square
\* tile; when none has, it returns the empty list.  It never returns a level
\* computed from such a base.
C8_ZeroColumnsBaseRaisesIfSquare ==
  (pc \in {"analyzed", "raised"} /\ imageInfo # <<>> /\ imageInfo[1].cols = 0)
    => /\ SquareScanned # {} => pc = "raised" /\ error = "ZeroDivisionError"
       /\ SquareScanned = {} =>
            pc = "analyzed" /\ error = "none" /\ tiledImages = <<>>

\* the base has no columns and no square tile, another record has a square
\* tile, and the call raised
C8_Witness ==
  /\ pc = "raised"
  /\ error = "ZeroDivisionError"
  /\ Len(imageInfo) >= 2
  /\ imageInfo[1].cols = 0
  /\ imageInfo[1].icols # imageInfo[1].irows
  /\ SquareScanned # {}

(***************************************************************************)
(* Paths.  os.path.join(a, b) is b when b is absolute, else a followed by  *)
(* the components of b.                                                    *)
(***************************************************************************)
AbsPath(parts) == [abs |-> TRUE, parts |-> parts]
Rel(name) == [abs |-> FALSE, parts |-> <<name>>]

Join(a, b) == IF b.abs THEN b ELSE [abs |-> a.abs, parts |-> a.parts \o b.parts]

\* d.endswith(".dcm")
EndsWithDotDcm(name) ==
  Len(name) >= 4 /\ SubSeq(name, Len(name) - 3, Len(name)) = <<".", "d", "c", "m">>

\* glob('*dcm'): names that end in dcm and do not begin with a dot
GlobDcm(name) ==
  /\ Len(name) >= 3
  /\ SubSeq(name, Len(name) - 2, Len(name)) = <<"d", "c", "m">>
  /\ name[1] # "."

(***************************************************************************)
(* Configuration of WsiDicomImporter and the paths mhubio.core resolves.   *)
(***************************************************************************)
\* source_dir and import_dir
SourceDir == <<"i", "n">>
ImportDir == <<"o", "u", "t">>
\* magnification and magTolerance
Magnification == 10
MagTolerance == 2

\* DirectoryChain(path, parent).abspath: the path below the data root
DcAbspath(path) == Join(AbsPath(<<<<"d", "a", "t", "a">>>>), Rel(path))
\* InstanceData('dicom', type, instance).abspath
DataAbspath(instancePath) == Join(instancePath, Rel(<<"d", "i", "c", "o", "m">>))

Modality == <<"M", "o", "d", "a", "l", "i", "t", "y">>
MetaSamples ==
  {[mod |-> <<"%">> \o Modality],
   [mod |-> <<"S", "M">>],
   [mod |-> <<"%">> \o Modality, kind |-> <<"W", "S", "I">>]}

(***************************************************************************)
(* scanSourceDir                                                           *)
(***************************************************************************)
scanSourceDir(listing) ==
  LET hasOnlyDicomFiles ==
        \A k \in 1..Len(listing) :
           ~(~listing[k].isfile \/ ~EndsWithDotDcm(listing[k].name))
      hasOnlyFolders == \A k \in 1..Len(listing) : listing[k].isdir
  IN  IF hasOnlyDicomFiles THEN "FLAT"
      ELSE IF hasOnlyFolders THEN "SERIES"
      ELSE "UNKNOWN"

(***************************************************************************)
(* pydicom_extract_information: the records of the globbed files whose     *)
(* extraction succeeded, in glob order.                                    *)
(***************************************************************************)
\* the loop left at the first file whose extraction fails
RECURSIVE ScanUntilFailure(_, _, _)
ScanUntilFailure(files, k, imageList) ==
  IF k > Len(files) THEN imageList
  ELSE IF ~GlobDcm(files[k].name) THEN ScanUntilFailure(files, k + 1, imageList)
  ELSE LET x == extract_image_info_dicom(files[k].hdr)
       IN  IF x.success
           THEN ScanUntilFailure(files, k + 1,
                                 Append(imageList, ImageRec(files[k].name, x)))
           ELSE imageList

RECURSIVE ScanFrom(_, _, _)
ScanFrom(files, k, imageList) ==
  IF k > Len(files) THEN imageList
  ELSE IF ~GlobDcm(files[k].name) THEN ScanFrom(files, k + 1, imageList)
  ELSE LET x == extract_image_info_dicom(files[k].hdr)
       IN  IF x.success
           THEN ScanFrom(files, k + 1, Append(imageList, ImageRec(files[k].name, x)))
           ELSE ScanFrom(files, k + 1, imageList)

pydicom_extract_information(files) == ScanFrom(files, 1, <<>>)

(***************************************************************************)
(* updateMeta                                                              *)
(***************************************************************************)
StartsWithPercent(v) == Len(v) >= 1 /\ v[1] = "%"

HasAttr(ds, field) == \E a \in ds : a.field = field
GetAttr(ds, field) == (CHOOSE a \in ds : a.field = field).value

\* any(v.startswith('%') for v in meta.values())
HasPlaceholder(m) == \E k \in DOMAIN m : StartsWithPercent(m[k])

\* meta_update: one entry per placeholder, the header field or ""
meta_update(m, ds) ==
  [k \in {j \in DOMAIN m : StartsWithPercent(m[j])} |->
     IF HasAttr(ds, Tail(m[k])) THEN GetAttr(ds, Tail(m[k])) ELSE <<>>]

\* meta = meta_update: the entries that were not placeholders are dropped
MetaReplaced(m, u) == u

\* meta += meta_update: the entries of u override those of m
MetaPlus(m, u) ==
  [k \in DOMAIN m \cup DOMAIN u |-> IF k \in DOMAIN u THEN u[k] ELSE m[k]]

\* the meta dictionary after updateMeta read the header ds
updateMeta(m, ds) ==
  IF ~HasPlaceholder(m) THEN m ELSE MetaPlus(m, meta_update(m, ds))

(***************************************************************************)
(* The directory trees the importer can meet.                              *)
(***************************************************************************)
FileA == DcmName("a")
FileB == DcmName("b")
NotDicom == <<"n", ".", "t", "x", "t">>

TopEntry(name, isdir) == [name |-> name, isdir |-> isdir, isfile |-> ~isdir]

TopEntries ==
  {TopEntry(FileA, FALSE), TopEntry(FileB, FALSE), TopEntry(NotDicom, FALSE),
   TopEntry(<<"s", "1">>, TRUE), TopEntry(<<"s", "2">>, TRUE),
   TopEntry(DcmName("t"), TRUE)}

\* the sequences without repetition of at most n elements of S
RECURSIVE Arrangements(_, _)
Arrangements(S, n) ==
  IF n = 0 THEN {<<>>}
  ELSE LET shorter == Arrangements(S, n - 1)
           longest == {q \in shorter : Len(q) = n - 1}
       IN  shorter \cup
           {Append(x[1], x[2]) :
              x \in {y \in longest \X S :
                       \A k \in 1..Len(y[1]) : y[1][k] # y[2]}}

\* headers of the files of one pyramid directory: a 20x base, a smaller
\* level, an image as large as the base without a square tile, and a header
\* with no columns
ImporterHeaders ==
  {Header(PyInt(20), 2, 2, <<1, 1>>), Header(PyInt(10), 1, 1, <<1, 1>>),
   Header(PyInt(10), 2, 2, <<2, 1>>), Header(PyInt(10), 0, 1, <<1, 1>>)}

FileNames == {FileA, FileB, NotDicom}

\* the files of a directory listed in the order names: a file glob() does
\* not select is never opened, its header is left out of the model
DirContents(names) ==
  {[k \in 1..Len(names) |-> [name |-> names[k], hdr |-> h[k]]] :
     h \in {g \in [1..Len(names) -> ImporterHeaders \cup {BadHeader}] :
              \A k \in 1..Len(names) :
                 ~GlobDcm(names[k]) => g[k] = BadHeader}}

\* the header fields updateMeta can look up in a copied file
DsSamples == {{}, {[field |-> Modality, value |-> <<"S", "M">>]}}

(***************************************************************************)
(* Spec: WsiDicomImporter.task                                             *)
(***************************************************************************)
Init ==
  /\ pc = "task"
  /\ error = "none"
  /\ targetMag = PyInt(Magnification)
  /\ magTolerance = Rat(MagTolerance, 1)
  /\ imageInfo = <<>>
  /\ tiledImages = <<>>
  /\ matchingImage = None
  /\ perm = <<>>
  /\ permInfo = <<>>
  /\ permTiled = <<>>
  /\ permError = "none"
  /\ topListing \in Arrangements(TopEntries, MaxEntries)
  /\ structure = "NOTSCANNED"
  /\ idx = 0
  /\ instances = <<>>
  /\ dirFiles = <<>>
  /\ cwd = AbsPath(<<>>)
  /\ matched = <<>>
  /\ noMatchLogged = {}
  /\ outDirs = {}
  /\ outFS = {}
  /\ metaCfg \in MetaSamples
  /\ datas = <<>>
  /\ metaReads = <<>>
  /\ ExtractorIdle

input_dir == DcAbspath(SourceDir)
sorted_dir == DcAbspath(ImportDir)

\* task: scan the structure of the source directory and dispatch on it
Task ==
  /\ pc = "task"
  /\ structure' = scanSourceDir(topListing)
  /\ pc' = IF structure' = "FLAT" THEN "single"
           ELSE IF structure' = "SERIES" THEN "multi"
           ELSE "raised"
  /\ error' = IF structure' \in {"FLAT", "SERIES"} THEN error ELSE "ValueError"
  /\ UNCHANGED <<metaReads, extractorVars>>
  /\ UNCHANGED <<targetMag, magTolerance, imageInfo, tiledImages, matchingImage,
                 perm, permInfo, permTiled, permError, topListing, idx,
                 instances, dirFiles, cwd, matched, noMatchLogged, outDirs,
                 outFS, metaCfg, datas>>

\* a new instance is added to the data handler and its directory is scanned
BeginInstance(instancePath, basedir, files) ==
  /\ instances' = Append(instances, instancePath)
  /\ cwd' = basedir
  /\ dirFiles' = files
  /\ imageInfo' = pydicom_extract_information(files)
  /\ pc' = "analyze"
  /\ UNCHANGED <<metaReads, extractorVars>>
  /\ UNCHANGED <<error, targetMag, magTolerance, tiledImages, matchingImage,
                 perm, permInfo, permTiled, permError, topListing, structure,
                 matched, noMatchLogged, outDirs, outFS, metaCfg, datas>>

\* importSingleInstance, up to the scan of the source directory itself
ImportSingleInstance ==
  /\ pc = "single"
  /\ \E files \in DirContents([k \in 1..Len(topListing) |-> topListing[k].name]) :
        BeginInstance(sorted_dir, input_dir, files)
  /\ UNCHANGED idx

\* importMultipleInstances: the next sub-directory, up to its scan
ImportNextInstance ==
  /\ pc = "multi"
  /\ idx < Len(topListing)
  /\ idx' = idx + 1
  /\ LET sid == topListing[idx + 1].name
         instance_dir == Join(input_dir, Rel(sid))
     IN  \E names \in Arrangements(FileNames, MaxDirFiles) :
           \E files \in DirContents(names) :
              BeginInstance(Join(sorted_dir, Rel(sid)), instance_dir, files)

\* importMultipleInstances: the loop over the sub-directories ends
ImportDone ==
  /\ pc = "multi"
  /\ idx = Len(topListing)
  /\ pc' = "done"
  /\ UNCHANGED <<metaReads, extractorVars>>
  /\ UNCHANGED <<error, targetMag, magTolerance, imageInfo, tiledImages,
                 matchingImage, perm, permInfo, permTiled, permError,
                 importerVars>>

InstanceAnalyze ==
  /\ pc = "analyze"
  /\ LET a == analyze_image_list(imageInfo)
     IN  /\ imageInfo' = a.imageList
         /\ tiledImages' = a.tiledImages
         /\ error' = IF a.raised THEN "ZeroDivisionError" ELSE error
         /\ pc' = IF a.raised THEN "raised" ELSE "match"
  /\ UNCHANGED <<metaReads, extractorVars>>
  /\ UNCHANGED <<targetMag, magTolerance, matchingImage, perm, permInfo,
                 permTiled, permError, importerVars>>

\* the matcher and the test of its result; only importSingleInstance leaves
\* the instance when the result is None
InstanceMatch ==
  /\ pc = "match"
  /\ matchingImage' = return_magnitude_match(tiledImages, targetMag, magTolerance)
  /\ matched' = Append(matched, IF matchingImage' = None THEN None
                                 ELSE [filename |-> matchingImage'.filename])
  /\ noMatchLogged' = IF IsNone(matchingImage')
                      THEN noMatchLogged \cup {Len(instances)}
                      ELSE noMatchLogged
  /\ pc' = IF structure = "FLAT" /\ IsNone(matchingImage') THEN "done" ELSE "copy"
  /\ UNCHANGED <<metaReads, extractorVars>>
  /\ UNCHANGED <<error, targetMag, magTolerance, imageInfo, tiledImages, perm,
                 permInfo, permTiled, permError, topListing, structure, idx,
                 instances, dirFiles, cwd, outDirs, outFS, metaCfg, datas>>

\* the InstanceData created for the instance that is being imported
NewData ==
  [instance |-> Len(instances),
   abspath |-> DataAbspath(instances[Len(instances)]),
   meta |-> metaCfg,
   confirmed |-> FALSE]

\* the first argument of shutil.copyfile
CopySource(filename) ==
  IF structure = "FLAT"
  THEN Join(input_dir, Rel(filename))
  ELSE Join(input_dir, Join(cwd, Rel(filename)))

\* the files that exist in the scanned directory
SourceFiles == {Join(cwd, Rel(dirFiles[k].name)) : k \in 1..Len(dirFiles)}

\* shutil.copytree(input_dir, dicom_data.abspath): every file of the directory
WholeTree(files, image) == {files[k].name : k \in 1..Len(files)}

\* the names copied into the output directory: copyfile copies one file
FilesToCopy(files, image) == {image.filename}

\* create the data and its directory, copy the matched file
InstanceCopy ==
  /\ pc = "copy"
  /\ datas' = Append(datas, NewData)
  /\ outDirs' = outDirs \cup {NewData.abspath}
  /\ IF matchingImage = None
     THEN /\ pc' = "raised"
          /\ error' = "TypeError"
          /\ outFS' = outFS
     ELSE LET copies == {[dest |-> Join(NewData.abspath, Rel(f)),
                          src |-> CopySource(f)] :
                           f \in FilesToCopy(dirFiles, matchingImage)}
          IN  IF \E c \in copies : c.src \notin SourceFiles
              THEN /\ pc' = "raised"
                   /\ error' = "FileNotFoundError"
                   /\ outFS' = outFS
              ELSE /\ pc' = "meta"
                   /\ error' = error
                   /\ outFS' = {o \in outFS : \A c \in copies : o.dest # c.dest}
                                 \cup copies
  /\ UNCHANGED <<metaReads, extractorVars>>
  /\ UNCHANGED <<targetMag, magTolerance, imageInfo, tiledImages, matchingImage,
                 perm, permInfo, permTiled, permError, topListing, structure,
                 idx, instances, dirFiles, cwd, matched, noMatchLogged, metaCfg>>

\* shutil.copyfile raises: the destination cannot be written
InstanceCopyFails ==
  /\ pc = "copy"
  /\ matchingImage # None
  /\ datas' = Append(datas, NewData)
  /\ outDirs' = outDirs \cup {NewData.abspath}
  /\ pc' = "raised"
  /\ error' = "OSError"
  /\ UNCHANGED <<metaReads, extractorVars>>
  /\ UNCHANGED <<targetMag, magTolerance, imageInfo, tiledImages, matchingImage,
                 perm, permInfo, permTiled, permError, topListing, structure,
                 idx, instances, dirFiles, cwd, matched, noMatchLogged, outFS,
                 metaCfg>>

\* os.listdir(dicom_data.abspath): the files copied into the data directory
ListDir(dir) ==
  {o.dest : o \in {c \in outFS : \E f \in FileNames : c.dest = Join(dir, Rel(f))}}

\* updateMeta(dicom_data): without a placeholder it returns at once; with one
\* it reads the header of a file of the data directory
InstanceUpdateMeta ==
  /\ pc = "meta"
  /\ IF ~HasPlaceholder(datas[Len(datas)].meta)
     THEN UNCHANGED <<datas, metaReads>>
     ELSE \E dicom_file_path \in ListDir(datas[Len(datas)].abspath) :
          \E ds \in DsSamples :
            /\ datas' = [datas EXCEPT ![Len(datas)].meta = updateMeta(@, ds)]
            /\ metaReads' = Append(metaReads, [data |-> Len(datas),
                                               file |-> dicom_file_path,
                                               ds |-> ds])
  /\ pc' = "confirm"
  /\ UNCHANGED extractorVars
  /\ UNCHANGED <<error, targetMag, magTolerance, imageInfo, tiledImages,
                 matchingImage, perm, permInfo, permTiled, permError,
                 topListing, structure, idx, instances, dirFiles, cwd, matched,
                 noMatchLogged, outDirs, outFS, metaCfg>>

\* confirm the data; importMultipleInstances goes on with its loop, where
\* imageInfo, tiledImages and matchingImage are assigned before they are read
InstanceConfirm ==
  /\ pc = "confirm"
  /\ datas' = [datas EXCEPT ![Len(datas)].confirmed =
                              datas[Len(datas)].abspath \in outDirs]
  /\ pc' = IF structure = "FLAT" THEN "done" ELSE "multi"
  /\ IF structure = "FLAT"
     THEN UNCHANGED <<imageInfo, tiledImages, matchingImage, dirFiles>>
     ELSE /\ imageInfo' = <<>>
          /\ tiledImages' = <<>>
          /\ matchingImage' = None
          /\ dirFiles' = <<>>
  /\ UNCHANGED <<metaReads, extractorVars>>
  /\ UNCHANGED <<error, targetMag, magTolerance, perm, permInfo, permTiled,
                 permError, topListing, structure, idx, instances, cwd,
                 matched, noMatchLogged, outDirs, outFS, metaCfg>>

Next ==
  \/ Task
  \/ ImportSingleInstance
  \/ ImportNextInstance
  \/ ImportDone
  \/ InstanceAnalyze
  \/ InstanceMatch
  \/ InstanceCopy
  \/ InstanceCopyFails
  \/ InstanceUpdateMeta
  \/ InstanceConfirm

Spec == Init /\ [][Next]_vars

(***************************************************************************)
(* SpecExtractor: WsiMagnificationExtractor.task                           *)
(***************************************************************************)
\* target_magnification and magnification_tolerance: the defaults, a pair
\* that puts both levels of a 20x/10x pyramid exactly at the tolerance, and
\* a pair that puts the 20x level exactly at it and the 10x level within
TargetMagnification == 10
MagnificationTolerance == 1
ExtractorConfigs ==
  {[target |-> PyFloat(Rat(TargetMagnification, 1)),
    tolerance |-> Rat(MagnificationTolerance, 1)],
   [target |-> PyFloat(Rat(15, 1)), tolerance |-> Rat(5, 1)],
   [target |-> PyFloat(Rat(12, 1)), tolerance |-> Rat(8, 1)]}

\* bundle.abspath: the bundle 'extracted' of the instance
Bundle == <<"e", "x", "t", "r", "a", "c", "t", "e", "d">>
BundleAbspath == Join(DcAbspath(ImportDir), Rel(Bundle))

\* in_data.abspath of the datasets of the instance, in collection order
DatasetDirs ==
  <<DataAbspath(DcAbspath(ImportDir)),
    Join(DcAbspath(ImportDir), Rel(<<"w", "s", "i">>)),
    Join(DcAbspath(ImportDir), Rel(<<"r", "a", "w">>)),
    Join(DcAbspath(ImportDir), Rel(<<"t", "m", "p">>))>>

\* the working directory is left as it was
CwdKept(old, basedir) == old

\* os.chdir(basedir)
CwdAfterChdir(old, basedir) == basedir

InitExtractor ==
  /\ pc = "ex.task"
  /\ error = "none"
  /\ \E c \in ExtractorConfigs :
        /\ targetMag = c.target
        /\ magTolerance = c.tolerance
  /\ imageInfo = <<>>
  /\ tiledImages = <<>>
  /\ matchingImage = None
  /\ perm = <<>>
  /\ permInfo = <<>>
  /\ permTiled = <<>>
  /\ permError = "none"
  /\ topListing = <<>>
  /\ structure = "NOTSCANNED"
  /\ idx = 0
  /\ instances = <<>>
  /\ dirFiles = <<>>
  /\ cwd = AbsPath(<<>>)
  /\ matched = <<>>
  /\ noMatchLogged = {}
  /\ outDirs = {}
  /\ outFS = {}
  /\ metaCfg = <<>>
  /\ datas = <<>>
  /\ metaReads = <<>>
  /\ \E n \in 0..MaxDatasets :
        /\ n <= Len(DatasetDirs)
        /\ inDatas = SubSeq(DatasetDirs, 1, n)
  /\ outDatas = <<>>
  /\ exCopies = <<>>

\* the variables the extractor never touches
extractorFrame == <<targetMag, magTolerance, perm, permInfo, permTiled,
                    permError, topListing, structure, instances,
                    noMatchLogged, outFS, metaCfg, datas, metaReads, inDatas>>

\* task: the directory of the bundle is created
ExTask ==
  /\ pc = "ex.task"
  /\ outDirs' = outDirs \cup {BundleAbspath}
  /\ pc' = "ex.loop"
  /\ UNCHANGED <<error, imageInfo, tiledImages, matchingImage, idx, dirFiles,
                 cwd, matched, outDatas, exCopies, extractorFrame>>

\* process_data of the next dataset, up to the scan: the scan changes the
\* working directory to the directory of the dataset and globs there
ExProcessData ==
  /\ pc = "ex.loop"
  /\ idx < Len(inDatas)
  /\ idx' = idx + 1
  /\ cwd' = CwdAfterChdir(cwd, inDatas[idx + 1])
  /\ \E names \in Arrangements(FileNames, MaxDirFiles) :
       \E files \in DirContents(names) :
          /\ dirFiles' = files
          /\ imageInfo' = ex_pydicom_extract_information(files)
  /\ pc' = "ex.analyze"
  /\ UNCHANGED <<error, tiledImages, matchingImage, matched, outDirs, outDatas,
                 exCopies, extractorFrame>>

ExAnalyze ==
  /\ pc = "ex.analyze"
  /\ LET a == ex_analyze_image_list(imageInfo)
     IN  /\ imageInfo' = a.imageList
         /\ tiledImages' = a.tiledImages
         /\ error' = IF a.raised THEN "ZeroDivisionError" ELSE error
         /\ pc' = IF a.raised THEN "raised" ELSE "ex.match"
  /\ UNCHANGED <<matchingImage, idx, dirFiles, cwd, matched, outDirs, outDatas,
                 exCopies, extractorFrame>>

ExMatch ==
  /\ pc = "ex.match"
  /\ matchingImage' =
       ex_return_magnitude_match(tiledImages, targetMag, magTolerance)
  /\ matched' = Append(matched, IF matchingImage' = None THEN None
                                 ELSE [filename |-> matchingImage'.filename])
  /\ pc' = "ex.test"
  /\ UNCHANGED <<error, imageInfo, tiledImages, idx, dirFiles, cwd, outDirs,
                 outDatas, exCopies, extractorFrame>>

\* 'if matchingImage:'; without a match process_data returns, and the next
\* call assigns imageInfo, tiledImages and matchingImage before reading them
ExTest ==
  /\ pc = "ex.test"
  /\ IF Truthy(matchingImage)
     THEN /\ pc' = "ex.copy"
          /\ UNCHANGED <<imageInfo, tiledImages, matchingImage, dirFiles>>
     ELSE /\ pc' = "ex.loop"
          /\ imageInfo' = <<>>
          /\ tiledImages' = <<>>
          /\ matchingImage' = None
          /\ dirFiles' = <<>>
  /\ UNCHANGED <<error, idx, cwd, matched, outDirs, outDatas, exCopies,
                 extractorFrame>>

\* the output data, its directory, the copy of the relative name wsiFile,
\* which the system resolves against the working directory, and the entry
\* added to out_datas
ExCopy ==
  /\ pc = "ex.copy"
  /\ LET wsiFile == matchingImage.filename
         out_path == Join(BundleAbspath, Rel(wsiFile))
     IN  /\ outDirs' = outDirs \cup {BundleAbspath}
         /\ exCopies' = Append(exCopies, [dataset |-> idx,
                                          src |-> Join(cwd, Rel(wsiFile)),
                                          dest |-> out_path])
         /\ outDatas' = Append(outDatas, [dataset |-> idx, path |-> out_path])
  /\ pc' = "ex.loop"
  /\ imageInfo' = <<>>
  /\ tiledImages' = <<>>
  /\ matchingImage' = None
  /\ dirFiles' = <<>>
  /\ UNCHANGED <<error, idx, cwd, matched, extractorFrame>>

\* shutil.copyfile raises: the destination cannot be written
ExCopyFails ==
  /\ pc = "ex.copy"
  /\ outDirs' = outDirs \cup {BundleAbspath}
  /\ pc' = "raised"
  /\ error' = "OSError"
  /\ UNCHANGED <<imageInfo, tiledImages, matchingImage, idx, dirFiles, cwd,
                 matched, outDatas, exCopies, extractorFrame>>

\* the loop over in_datas ends
ExDone ==
  /\ pc = "ex.loop"
  /\ idx = Len(inDatas)
  /\ pc' = "ex.done"
  /\ UNCHANGED <<error, imageInfo, tiledImages, matchingImage, idx, dirFiles,
                 cwd, matched, outDirs, outDatas, exCopies, extractorFrame>>

NextExtractor ==
  \/ ExTask
  \/ ExProcessData
  \/ ExAnalyze
  \/ ExMatch
  \/ ExTest
  \/ ExCopy
  \/ ExCopyFails
  \/ ExDone

SpecExtractor == InitExtractor /\ [][NextExtractor]_vars

(***************************************************************************)
(* Statements about the scan.                                              *)
(***************************************************************************)
\* the positions of the listed files glob() selects and pydicom decodes
Decoded ==
  {k \in 1..Len(dirFiles) :
     /\ Len(dirFiles[k].name) >= 3
     /\ SubSeq(dirFiles[k].name, Len(dirFiles[k].name) - 2,
               Len(dirFiles[k].name)) = <<"d", "c", "m">>
     /\ dirFiles[k].hdr # BadHeader}

IsRecordOf(r, f) ==
  /\ r.filename = f.name
  /\ r.cols = f.hdr.TotalPixelMatrixColumns
  /\ r.rows = f.hdr.TotalPixelMatrixRows
  /\ r.size = f.hdr.TotalPixelMatrixRows * f.hdr.TotalPixelMatrixColumns
  /\ r.icols = f.hdr.Columns
  /\ r.irows = f.hdr.Rows
  /\ r.mag = <<f.hdr.ObjectiveLensPower.int, 1>>

\* C7: a file whose extraction fails is left out, nothing is raised, and the
\* remaining files are still scanned: the scan result holds one complete
\* record for each file whose extraction succeeded and nothing else; it is
\* empty when the directory is empty or every extraction fails.
C7_ScanKeepsExactlyDecodedFiles ==
  pc = "analyze" =>
    /\ error = "none"
    /\ Len(imageInfo) = Cardinality(Decoded)
    /\ \A k \in Decoded :
          \E j \in 1..Len(imageInfo) : IsRecordOf(imageInfo[j], dirFiles[k])
    /\ \A j \in 1..Len(imageInfo) :
          \E k \in Decoded : IsRecordOf(imageInfo[j], dirFiles[k])

\* a file that fails extraction is listed before one that succeeds, and the
\* later one is in the scan result
C7_Witness ==
  /\ pc = "analyze"
  /\ \E k, l \in 1..Len(dirFiles) :
        /\ k < l
        /\ dirFiles[k].hdr = BadHeader
        /\ dirFiles[k].name # NotDicom
        /\ l \in Decoded
        /\ \E j \in 1..Len(imageInfo) : imageInfo[j].filename = dirFiles[l].name

(***************************************************************************)
(* Statements about the import of the instances.                           *)
(***************************************************************************)
Ended == pc \in {"done", "raised"}

\* the instance whose cycle is running, or ran last
Current == Len(instances)

\* C5 as stated: an instance for which the matcher returned None gets the
\* diagnostic, no output file and no confirmed data, and no error is raised
\* while it is processed, in importSingleInstance and at every position of
\* importMultipleInstances.
C5_NoMatchIsSkipped ==
  \A i \in 1..Len(matched) :
     matched[i] = None =>
       /\ i \in noMatchLogged
       /\ \A k \in 1..Len(datas) : datas[k].instance = i => ~datas[k].confirmed
       /\ ~(pc = "raised" /\ Current = i)

\* the source directory and the data directory of instance i
SourceDirOf(i) ==
  IF structure = "FLAT"
  THEN <<<<"d", "a", "t", "a">>, <<"i", "n">>>>
  ELSE <<<<"d", "a", "t", "a">>, <<"i", "n">>, topListing[i].name>>
DataDirOf(i) ==
  IF structure = "FLAT"
  THEN <<<<"d", "a", "t", "a">>, <<"o", "u", "t">>, <<"d", "i", "c", "o", "m">>>>
  ELSE <<<<"d", "a", "t", "a">>, <<"o", "u", "t">>, topListing[i].name,
         <<"d", "i", "c", "o", "m">>>>

\* the one copy instance i is to make
CopyOf(i) ==
  [dest |-> [abs |-> TRUE, parts |-> Append(DataDirOf(i), matched[i].filename)],
   src |-> [abs |-> TRUE, parts |-> Append(SourceDirOf(i), matched[i].filename)]]

\* the copy step of instance i is over
Copied(i) == i < Current \/ (i = Current /\ pc \in {"meta", "confirm", "done", "multi"})

Matches == {i \in 1..Len(matched) : matched[i] # None}

\* C6: for every instance with a matched level, the copy puts exactly one
\* file into the data directory of that instance, the matched file of the
\* instance's own source directory, which is always found there; no other
\* file is ever copied, however many instances were processed.
C6_OnlyTheMatchedFileIsCopied ==
  /\ error # "FileNotFoundError"
  /\ \A i \in Matches : Copied(i) => CopyOf(i) \in outFS
  /\ outFS \subseteq {CopyOf(i) : i \in Matches}

\* two instances of one batch had matches under different file names, and
\* both copies were made
C6_Witness ==
  /\ pc = "done"
  /\ structure = "SERIES"
  /\ Cardinality(Matches) >= 2
  /\ Cardinality(outFS) >= 2
  /\ \E i, j \in Matches : matched[i].filename # matched[j].filename

\* C9 as stated: a copy failure or a degenerate base in one instance of
\* importMultipleInstances does not abort the batch: when the run is over,
\* every sub-directory had its cycle.
C9_FailureEndsOnlyThatInstance ==
  (Ended /\ structure = "SERIES" /\ error \in {"none", "OSError", "ZeroDivisionError"})
    => idx = Len(topListing)

\* C10 as stated: task raises and imports nothing exactly when the first
\* level of the source directory is neither only .dcm files nor only
\* sub-directories; a flat directory gets exactly one importSingleInstance
\* call, a directory of sub-directories one import cycle per sub-directory.
C10_RaisesExactlyOnUnknownShape ==
  Ended =>
    /\ (error # "none" /\ \A k \in 1..Len(datas) : ~datas[k].confirmed)
         <=> structure = "UNKNOWN"
    /\ structure = "FLAT" => Len(instances) = 1
    /\ structure = "SERIES" => Len(instances) = Len(topListing)

\* updateMeta has returned for data k
Resolved(k) == datas[k].confirmed \/ (k = Len(datas) /\ pc = "confirm")

\* the header reads made for data k
ReadsOf(k) == {j \in 1..Len(metaReads) : metaReads[j].data = k}

\* what a configured value is to become, given the header of the copied file
Resolution(v, ds) ==
  IF Len(v) >= 1 /\ v[1] = "%"
  THEN IF \E a \in ds : a.field = Tail(v)
       THEN (CHOOSE a \in ds : a.field = Tail(v)).value
       ELSE <<>>
  ELSE v

\* C13: once updateMeta returned for a data, every placeholder value of the
\* configured meta is the same-named header field of the file copied for
\* that data, or "" when the header lacks it, and every other entry is as
\* configured; with no placeholder configured the meta is as configured and
\* no file was read. A header read is only made by an updateMeta that
\* returned.
C13_UpdateMetaResolvesOnlyPlaceholders ==
  /\ \A j \in 1..Len(metaReads) :
        metaReads[j].data \in 1..Len(datas) /\ Resolved(metaReads[j].data)
  /\ \A k \in 1..Len(datas) : Resolved(k) =>
        /\ DOMAIN datas[k].meta = DOMAIN metaCfg
        /\ IF \E key \in DOMAIN metaCfg :
                 Len(metaCfg[key]) >= 1 /\ metaCfg[key][1] = "%"
           THEN /\ Cardinality(ReadsOf(k)) = 1
                /\ \A j \in ReadsOf(k) :
                     /\ metaReads[j].file = CopyOf(datas[k].instance).dest
                     /\ \A key \in DOMAIN metaCfg :
                          datas[k].meta[key] =
                            Resolution(metaCfg[key], metaReads[j].ds)
           ELSE /\ ReadsOf(k) = {}
                /\ datas[k].meta = metaCfg

\* a batch with a placeholder and a plain entry configured ended with two
\* datas resolved, one from a header that has the field, one from a header
\* that lacks it
C13_Witness ==
  /\ pc = "done"
  /\ error = "none"
  /\ DOMAIN metaCfg = {"mod", "kind"}
  /\ Len(datas) = 2
  /\ \A k \in 1..2 : datas[k].confirmed /\ datas[k].meta.kind = metaCfg.kind
  /\ \E j, l \in 1..Len(metaReads) :
        /\ metaReads[j].ds = {}
        /\ datas[metaReads[j].data].meta.mod = <<>>
        /\ metaReads[l].ds # {}
        /\ datas[metaReads[l].data].meta.mod = <<"S", "M">>

\* a data is confirmed only with its copy made, its placeholders resolved
\* and its directory present, and only for an instance that had a match
ConfirmedOnlyWhenResolved ==
  \A k \in 1..Len(datas) : datas[k].confirmed =>
     /\ matched[datas[k].instance] # None
     /\ CopyOf(datas[k].instance) \in outFS
     /\ \A key \in DOMAIN datas[k].meta :
          ~(Len(datas[k].meta[key]) >= 1 /\ datas[k].meta[key][1] = "%")
     /\ datas[k].abspath \in outDirs

\* the steps of one instance: scanned, then analyzed, then matched; from the
\* match either skipped with nothing created (no match) or on to the copy
\* (a match), then the resolution, then the confirmation; a failure may
\* end the cycle at any step
InstanceStep ==
  pc' # pc =>
    /\ pc' = "analyze" => pc \in {"single", "multi"}
    /\ pc' = "match" => pc = "analyze"
    /\ pc' = "copy" => pc = "match" /\ matchingImage' # None
    /\ pc' = "meta" => pc = "copy"
    /\ pc' = "confirm" => pc = "meta"
    /\ (pc = "match" /\ matchingImage' = None) =>
          /\ pc' \in {"done", "multi"}
          /\ datas' = datas
          /\ outDirs' = outDirs
    /\ pc = "confirm" =>
          /\ pc' \in {"done", "multi"}
          /\ datas'[Len(datas)].confirmed

\* C11 as stated: every instance follows Scanning -> Analyzing -> Matching
\* -> (Skipped | Copying -> MetadataResolving -> Confirmed); a data is
\* confirmed only after the copy and the placeholder resolution completed,
\* only with its directory present, and never for a no-match instance.
C11_InstanceFollowsStateMachine ==
  []ConfirmedOnlyWhenResolved /\ [][InstanceStep]_vars

\* process_data has returned for dataset i
Processed(i) == i < idx \/ (i = idx /\ pc \in {"ex.loop", "ex.done"})

\* the entries of out_datas that were added for dataset i
EntriesOf(i) == {k \in 1..Len(outDatas) : outDatas[k].dataset = i}

\* C14: in WsiMagnificationExtractor every copy made for a dataset reads the
\* matched file inside the directory of that dataset, the working directory
\* is the directory of the dataset whenever its copy is about to be made,
\* and out_datas holds exactly one entry for every processed dataset that
\* had a match and none for any other dataset.
C14_CopyReadsOwnDatasetDirectory ==
  /\ \A k \in 1..Len(exCopies) :
        /\ exCopies[k].dataset \in 1..Len(matched)
        /\ matched[exCopies[k].dataset] # None
        /\ exCopies[k].src =
             [abs |-> TRUE,
              parts |-> Append(inDatas[exCopies[k].dataset].parts,
                               matched[exCopies[k].dataset].filename)]
  /\ pc = "ex.copy" => cwd = inDatas[idx]
  /\ \A i \in 1..Len(inDatas) :
        Cardinality(EntriesOf(i)) =
          IF Processed(i) /\ matched[i] # None THEN 1 ELSE 0
  /\ \A k \in 1..Len(outDatas) : outDatas[k].dataset \in 1..Len(inDatas)

\* two datasets were processed, the first with a match and the second with
\* a match under another name, and both copies were made
C14_Witness ==
  /\ pc = "ex.done"
  /\ Len(inDatas) = 2
  /\ Len(exCopies) = 2
  /\ Len(outDatas) = 2
  /\ matched[1] # None /\ matched[2] # None
  /\ matched[1].filename # matched[2].filename
  /\ exCopies[1].src # exCopies[2].src

(***************************************************************************)
(* SpecCallSites: a run of WsiDicomImporter.task or a run of               *)
(* WsiMagnificationExtractor.task, the two call sites of the resolver.     *)
(***************************************************************************)
InitCallSites == Init \/ InitExtractor

NextCallSites ==
  \/ Task
  \/ ImportSingleInstance
  \/ ImportNextInstance
  \/ ImportDone
  \/ InstanceAnalyze
  \/ InstanceMatch
  \/ InstanceCopy
  \/ InstanceCopyFails
  \/ InstanceUpdateMeta
  \/ InstanceConfirm
  \/ ExTask
  \/ ExProcessData
  \/ ExAnalyze
  \/ ExMatch
  \/ ExTest
  \/ ExCopy
  \/ ExCopyFails
  \/ ExDone

SpecCallSites == InitCallSites /\ [][NextCallSites]_vars

\* the chain of the importer and the chain of the extractor applied to the
\* directory that is being processed, with the configured target and
\* tolerance: the scanned list, the analysis and the matcher result
ImporterChain ==
  LET a == analyze_image_list(pydicom_extract_information(dirFiles))
  IN  [scanned |-> pydicom_extract_information(dirFiles),
       analysis |-> a,
       match |-> IF a.raised THEN None
                 ELSE return_magnitude_match(a.tiledImages, targetMag,
                                             magTolerance)]

ExtractorChain ==
  LET a == ex_analyze_image_list(ex_pydicom_extract_information(dirFiles))
  IN  [scanned |-> ex_pydicom_extract_information(dirFiles),
       analysis |-> a,
       match |-> IF a.raised THEN None
                 ELSE ex_return_magnitude_match(a.tiledImages, targetMag,
                                                magTolerance)]

\* C12: on every directory either module processes, with its target and
\* tolerance, the chain of the importer and the chain of the extractor give
\* the same scanned list, the same analysis and the same matcher result (the
\* same file or both none), the result each module holds is that result,
\* the importer's 'is None' test and the extractor's truthiness test agree
\* on it, and each module has copied a file exactly for the directories
\* whose matcher result was a level.
C12_SameResolverAtBothCallSites ==
  /\ ImporterChain = ExtractorChain
  /\ Truthy(ExtractorChain.match) <=> ~IsNone(ImporterChain.match)
  /\ pc \in {"ex.test", "ex.copy"} => matchingImage = ImporterChain.match
  /\ pc = "copy" => matchingImage = ExtractorChain.match
  /\ pc = "ex.copy" => ~IsNone(matchingImage)
  /\ pc \in {"meta", "confirm"} => Truthy(matchingImage)
  /\ \A i \in 1..Len(inDatas) :
        Processed(i) => (EntriesOf(i) # {} <=> matched[i] # None)
  /\ outFS = {CopyOf(i) : i \in {j \in Matches : Copied(j)}}

\* the extractor holds a matcher result that is a level while a larger
\* level of the same directory lies exactly at the tolerance
C12_Witness ==
  /\ pc = "ex.copy"
  /\ Truthy(matchingImage)
  /\ \E k \in 1..Len(tiledImages) :
        /\ tiledImages[k].filename # matchingImage.filename
        /\ RatAbs(RatSub(tiledImages[k].mag, Float(targetMag))) = magTolerance

====
